---- MODULE Spec2Model ----
(***************************************************************************)
(* Model of sciencebasepy/weblinks.py (class Weblinks).                    *)
(*                                                                         *)
(* Python dicts are TLA+ functions whose domain is the set of keys; a      *)
(* web link is a dict object on a heap and is mutated in place.  The       *)
(* outcomes of the external collaborators (HTTP server, HTML/XML/JSON      *)
(* parsers, structured-data extractor, metadata parser, catalog) are the   *)
(* inputs of the actions.                                                  *)
(***************************************************************************)
EXTENDS Integers, Sequences, FiniteSets, TLC

\* ------------------------------------------------------------------ bounds
NumLinks == 2        \* web link objects on the heap
MaxLen == 2          \* longest list handed to process_web_links
MaxClock == 2        \* readings of datetime.utcnow() in one behaviour
MaxMetas == 2        \* <meta> tags in a document given to meta_scraper
MaxItemLinks == 2    \* webLinks of a catalog item

VARIABLES
    links,        \* heap of web link dicts: [Objs -> dict]
    now,          \* datetime.utcnow(), a counter of readings
    pc,           \* position of the process_web_links call
    arg,          \* its argument web_link: [kind, refs]
    idx,          \* list comprehension: next position to process
    out,          \* list comprehension: results so far
    result,       \* what the call returned
    raised,       \* the exception that left the call, or "none"
    wire,         \* the HTTP GETs issued by the current call, in order
    cur,          \* the last link_meta call: [obj, before, fetch]
    fw_call,      \* fetch_web_links: arguments and the catalog's reply
    fw_result,    \* fetch_web_links: returned value
    html_content, \* meta_scraper: argument (parsed document)
    scraped       \* meta_scraper: returned value

vars == <<links, now, pc, arg, idx, out, result, raised, wire, cur,
          fw_call, fw_result, html_content, scraped>>

main_vars == <<links, now, pc, arg, idx, out, result, raised, wire, cur>>
fw_vars == <<fw_call, fw_result>>
scraper_vars == <<html_content, scraped>>

\* ------------------------------------------------------- Python primitives
\* the object None, as a value comparable with strings-as-sequences
None == <<"None">>

\* d[k] = v
Put(d, k, v) == (k :> v) @@ d

\* d.get(k, default)
Get(d, k, default) == IF k \in DOMAIN d THEN d[k] ELSE default

\* str.strip(): strings are sequences of characters
RECURSIVE lstrip(_)
lstrip(s) == IF s # <<>> /\ Head(s) = " " THEN lstrip(Tail(s)) ELSE s

RECURSIVE rstrip(_)
rstrip(s) ==
    IF s # <<>> /\ s[Len(s)] = " " THEN rstrip(SubSeq(s, 1, Len(s) - 1)) ELSE s

strip(s) == rstrip(lstrip(s))

\* isinstance(v, str): every attribute value and stripped text is a str,
\* the object None is not
isinstance_str(v) == v # None

\* --------------------------------------------------------------- documents
\* What BeautifulSoup(html_content, 'html.parser') exposes to meta_scraper:
\* soup.title (None or a tag with .string) and soup.findAll("meta"), each
\* tag a dict of attributes.
Names == {<<>>, <<"a">>, <<"t", "i", "t", "l", "e">>}
Contents == {<<>>, <<" ">>, <<"b">>, <<" ", "b", " ">>, <<"c">>}
TitleKey == <<"t", "i", "t", "l", "e">>

MetaTags ==
    { [a \in {} |-> <<>>] }
    \cup { ("name" :> n) : n \in Names }
    \cup { ("content" :> c) : c \in Contents }
    \cup { ("name" :> n) @@ ("content" :> c) : n \in Names, c \in Contents }

\* soup.title: "absent" (soup.title is None), or present with .string a
\* text or None (an empty <title></title>)
Titles == { [present |-> FALSE, string |-> None],
            [present |-> TRUE, string |-> <<"T">>],
            [present |-> TRUE, string |-> None] }

SeqsUpTo(S, n) == UNION { [1..k -> S] : k \in 0..n }

Docs == [title : Titles, metas : SeqsUpTo(MetaTags, MaxMetas)]

\* the loop body of meta_scraper for one <meta> tag
scrape_meta(meta_content, meta) ==
    LET metaname == Get(meta, "name", <<>>)
        metacontent == IF "content" \in DOMAIN meta
                       THEN strip(meta["content"])
                       ELSE None
    IN  IF isinstance_str(metaname) /\ isinstance_str(metacontent)
           /\ Len(metacontent) > 0
        THEN Put(meta_content, metaname, metacontent)
        ELSE meta_content

RECURSIVE scrape_metas(_, _)
scrape_metas(meta_content, metas) ==
    IF metas = <<>> THEN meta_content
    ELSE scrape_metas(scrape_meta(meta_content, Head(metas)), Tail(metas))

EmptyDict == [k \in {} |-> <<>>]

meta_scraper(soup) ==
    LET meta_content == IF soup.title.present
                        THEN Put(EmptyDict, TitleKey, soup.title.string)
                        ELSE EmptyDict
    IN  scrape_metas(meta_content, soup.metas)


\* --------------------------------------------------------- HTTP responses
Objs == 1..NumLinks

\* names bound in the module's namespace by its import statements
ModuleNames == {"print_function", "requests", "extruct", "get_base_url",
                "BeautifulSoup", "get_metadata_parser", "ET", "datetime",
                "SbSession"}

BlankDoc == [title |-> [present |-> FALSE, string |-> None], metas |-> <<>>]

\* <html><head><title>T</title><meta name="a" content=" b "></head></html>
TitledDoc == [title |-> [present |-> TRUE, string |-> <<"T">>],
              metas |-> << ("name" :> <<"a">>) @@ ("content" :> <<" ", "b", " ">>) >>]

\* <meta property="p" content="c">, no title
NamelessDoc == [title |-> [present |-> FALSE, string |-> None],
                metas |-> << ("content" :> <<"c">>) >>]

PageDocs == {TitledDoc, NamelessDoc}

\* A response body, described by what each parser called on it does:
\*   elem    BeautifulSoup(text, "html.parser").find() finds an element
\*   xml     ET.fromstring(text) succeeds
\*   json    response.json() succeeds
\*   extruct extruct.extract(text, ...) succeeds
\*   gis     get_metadata_parser(text) succeeds
\*   soup    the document BeautifulSoup exposes to meta_scraper
\* Strict XML has a root element, and no text is both XML and JSON.
Bodies ==
    { [elem |-> FALSE, xml |-> FALSE, json |-> j, extruct |-> FALSE,
       gis |-> FALSE, soup |-> BlankDoc] : j \in BOOLEAN }
    \cup { [elem |-> TRUE, xml |-> TRUE, json |-> FALSE, extruct |-> TRUE,
            gis |-> g, soup |-> BlankDoc] : g \in BOOLEAN }
    \cup { [elem |-> TRUE, xml |-> FALSE, json |-> j, extruct |-> e,
            gis |-> FALSE, soup |-> d] :
                j \in BOOLEAN, e \in BOOLEAN, d \in PageDocs }

EmptyBody == [elem |-> FALSE, xml |-> FALSE, json |-> FALSE,
              extruct |-> FALSE, gis |-> FALSE, soup |-> BlankDoc]

OtherStatuses == {204, 304, 404, 500}
ContentTypeHeaders == {"text/html", "application/json"}

\* What requests.get(uri) does: raises, or yields a response
Fetches ==
    { [kind |-> "ConnectionError", status_code |-> 0, ctype |-> "",
       body |-> EmptyBody] }
    \cup { [kind |-> "Response", status_code |-> 200, ctype |-> h, body |-> b] :
               h \in ContentTypeHeaders, b \in Bodies }
    \cup { [kind |-> "Response", status_code |-> s, ctype |-> "text/html",
            body |-> EmptyBody] : s \in OtherStatuses }

\* the response "None"
NoResponse == [kind |-> "None", status_code |-> 0, ctype |-> "",
               body |-> EmptyBody]

\* requests_get with one retry
requests_get_retry(uri) == << uri, uri >>

\* the GETs that one requests.get(uri, headers=...) call puts on the wire
requests_get(uri) == << uri >>

\* requests.Response.raise_for_status(): raises HTTPError for 4xx and 5xx
raise_for_status(response) ==
    response.status_code >= 400 /\ response.status_code < 600

\* annotated_web_link["annotation"][k] = v
SetAnnotation(web_link, k, v) ==
    Put(web_link, "annotation", Put(web_link["annotation"], k, v))

\* classify with the JSON trial made before the HTML one
classify_json_first(annotated_web_link, response) ==
    IF response.body.json
    THEN SetAnnotation(annotated_web_link, "content_type", "json")
    ELSE IF response.body.elem
    THEN IF response.body.xml
         THEN SetAnnotation(annotated_web_link, "content_type", "xml")
         ELSE SetAnnotation(annotated_web_link, "content_type", "html")
    ELSE annotated_web_link

\* the trial-parse classification of a 200 response
classify(annotated_web_link, response) ==
    IF response.body.elem
    THEN IF response.body.xml
         THEN SetAnnotation(annotated_web_link, "content_type", "xml")
         ELSE SetAnnotation(annotated_web_link, "content_type", "html")
    ELSE IF response.body.json
         THEN SetAnnotation(annotated_web_link, "content_type", "json")
         ELSE annotated_web_link

\* record_response placed after the "status_code != 200" return
record_response_only_200(annotated_web_link, response) ==
    IF response.status_code # 200
    THEN annotated_web_link
    ELSE SetAnnotation(
             SetAnnotation(
                 SetAnnotation(annotated_web_link, "status_code",
                               response.status_code),
                 "headers", [ContentType |-> response.ctype]),
             "encoding", "utf-8")

\* the three assignments after the try statement
record_response(annotated_web_link, response) ==
    SetAnnotation(
        SetAnnotation(
            SetAnnotation(annotated_web_link, "status_code", response.status_code),
            "headers", [ContentType |-> response.ctype]),
        "encoding", "utf-8")

\* fresh_annotation updating the existing annotation dict instead of
\* replacing it
fresh_annotation_merge(web_link, utcnow) ==
    Put(web_link, "annotation",
        ("link_check_date" :> utcnow) @@ ("content_type" :> "UNKNOWN")
            @@ Get(web_link, "annotation", EmptyDict))

\* the web link with a fresh annotation
fresh_annotation(web_link, utcnow) ==
    Put(web_link, "annotation",
        ("link_check_date" :> utcnow) @@ ("content_type" :> "UNKNOWN"))

\* the except clauses, entered with the exception the try block raised;
\* matching "except HTTPError" first looks the name HTTPError up
handle_exception(annotated_web_link, try_exc) ==
    IF "HTTPError" \notin ModuleNames
    THEN [web_link |-> annotated_web_link, r |-> NoResponse, exc |-> "NameError"]
    ELSE IF try_exc = "HTTPError"
    THEN [web_link |-> SetAnnotation(
                           SetAnnotation(annotated_web_link, "content_type", "HTTP_ERROR"),
                           "error_message", <<try_exc>>),
          r |-> NoResponse, exc |-> "none"]
    ELSE [web_link |-> SetAnnotation(
                           SetAnnotation(annotated_web_link, "content_type", "ERROR"),
                           "error_message", <<try_exc>>),
          r |-> NoResponse, exc |-> "none"]

\* get_weblink_response(web_link), fetch being what requests.get does.
\* Returns the link as left on the heap, the response, the exception that
\* leaves the function ("none" when it returns) and the GETs it issued.
get_weblink_response(web_link, fetch, utcnow) ==
    LET annotated_web_link == fresh_annotation(web_link, utcnow)
        try_exc == IF fetch.kind = "ConnectionError" THEN "ConnectionError"
                   ELSE IF raise_for_status(fetch) THEN "HTTPError"
                   ELSE "none"
        sent == requests_get(web_link["uri"])
    IN  IF try_exc # "none"
        THEN handle_exception(annotated_web_link, try_exc) @@ [sent |-> sent]
        ELSE LET recorded == record_response(annotated_web_link, fetch)
             IN  IF fetch.status_code # 200
                 THEN [web_link |-> recorded, r |-> fetch, exc |-> "none",
                       sent |-> sent]
                 ELSE [web_link |-> classify(recorded, fetch), r |-> fetch,
                       exc |-> "none", sent |-> sent]

SummaryFields == {"title", "abstract", "place_keywords", "thematic_keywords",
                  "attributes", "bounding_box", "contacts", "dates",
                  "digital_forms", "larger_works", "process_steps",
                  "raster_info"}

\* summarize_xml_meta(xml_content): get_metadata_parser raises on content it
\* does not recognise, else the twelve fields are copied
summarize_xml_meta(body) ==
    IF body.gis
    THEN [exc |-> "none", value |-> [k \in SummaryFields |-> <<"meta", k>>]]
    ELSE [exc |-> "InvalidContent", value |-> [k \in SummaryFields |-> None]]

\* link_meta: if content_type == "html": meta_content and structured_data
annotate_html(annotated_link, r) ==
    IF annotated_link["annotation"]["content_type"] = "html"
    THEN SetAnnotation(
             SetAnnotation(annotated_link, "meta_content",
                           meta_scraper(r.body.soup)),
             "structured_data",
             IF r.body.extruct THEN <<"extruct">> ELSE None)
    ELSE annotated_link

\* link_meta: if content_type == "xml": xml_meta_summary, outside any try
annotate_xml(annotated_link, r) ==
    IF annotated_link["annotation"]["content_type"] = "xml"
    THEN LET s == summarize_xml_meta(r.body)
         IN  IF s.exc # "none"
             THEN [web_link |-> annotated_link, exc |-> s.exc]
             ELSE [web_link |-> SetAnnotation(annotated_link,
                                              "xml_meta_summary", s.value),
                   exc |-> "none"]
    ELSE [web_link |-> annotated_link, exc |-> "none"]

\* annotate_json storing the JSON of every body that parses as JSON
annotate_json_any(annotated_link, r) ==
    IF r.body.json
    THEN SetAnnotation(annotated_link, "json_content", <<"json">>)
    ELSE annotated_link

\* link_meta: if content_type == "json": json_content = r.json()
annotate_json(annotated_link, r) ==
    IF annotated_link["annotation"]["content_type"] = "json"
    THEN SetAnnotation(annotated_link, "json_content", <<"json">>)
    ELSE annotated_link

\* link_meta(web_link): the link as left on the heap, the exception that
\* leaves the function ("none" when it returns the link), the GETs issued
link_meta(web_link, fetch, utcnow) ==
    LET g == get_weblink_response(web_link, fetch, utcnow)
    IN  IF g.exc # "none"
        THEN [web_link |-> g.web_link, exc |-> g.exc, sent |-> g.sent]
        ELSE LET h == annotate_html(g.web_link, g.r)
                 x == annotate_xml(h, g.r)
             IN  IF x.exc # "none"
                 THEN [web_link |-> x.web_link, exc |-> x.exc, sent |-> g.sent]
                 ELSE [web_link |-> annotate_json(x.web_link, g.r),
                       exc |-> "none", sent |-> g.sent]

\* -------------------------------------------------------- fetch_web_links
\* the default None of link_type and link_title
NoFilter == "None"

LinkTypes == {"download", "info"}
LinkTitles == {"A", "B"}
ItemIds == {"id1", "id2"}

CatalogLinks == [uri : {"u"}, type : LinkTypes, title : LinkTitles]

\* what self.sb.get_item(item_id, params={"fields": "webLinks"}) returns
Items(item_id) ==
    { [id |-> item_id] }
    \cup { [id |-> item_id, webLinks |-> w] :
               w \in SeqsUpTo(CatalogLinks, MaxItemLinks) }

\* the value None returned by fetch_web_links
NoneReturned == [none |-> TRUE]
NotCalled == [called |-> FALSE]

\* [l for l in web_links if l["type"] == link_type]
filter_type(web_links, link_type) ==
    SelectSeq(web_links, LAMBDA l : l["type"] = link_type)

\* [l for l in web_links if l["title"] == link_title]
filter_title(web_links, link_title) ==
    SelectSeq(web_links, LAMBDA l : l["title"] = link_title)

\* fetch_web_links whose title filter starts again from item["webLinks"]
fetch_web_links_title_restart(item, item_id, link_type, link_title) ==
    IF "webLinks" \notin DOMAIN item
    THEN NoneReturned
    ELSE LET w0 == item["webLinks"]
             w1 == IF link_type # NoFilter THEN filter_type(w0, link_type)
                   ELSE w0
             w2 == IF link_title # NoFilter THEN filter_title(w0, link_title)
                   ELSE w1
         IN  IF Len(w2) = 0
             THEN NoneReturned
             ELSE [id |-> item_id, webLinks |-> w2]

\* fetch_web_links(item_id, link_type, link_title), item being the
\* catalog's reply
fetch_web_links(item, item_id, link_type, link_title) ==
    IF "webLinks" \notin DOMAIN item
    THEN NoneReturned
    ELSE LET w0 == item["webLinks"]
             w1 == IF link_type # NoFilter THEN filter_type(w0, link_type)
                   ELSE w0
             w2 == IF link_title # NoFilter THEN filter_title(w1, link_title)
                   ELSE w1
         IN  IF Len(w2) = 0
             THEN NoneReturned
             ELSE [id |-> item_id, webLinks |-> w2]

\* ------------------------------------------------------ process_web_links
URI(o) == <<"uri", o>>

NewLink(o) == [uri |-> URI(o), type |-> "download", title |-> "T"]

NoResult == [kind |-> "none", refs |-> <<>>]
NoCall == [obj |-> 0, before |-> EmptyDict, fetch |-> NoResponse]

Lists == SeqsUpTo(Objs, MaxLen)

Init ==
    /\ links = [o \in Objs |-> NewLink(o)]
    /\ now = 0
    /\ pc = "idle"
    /\ arg = NoResult
    /\ idx = 1
    /\ out = <<>>
    /\ result = NoResult
    /\ raised = "none"
    /\ wire = <<>>
    /\ cur = NoCall
    /\ fw_call = NotCalled
    /\ fw_result = NotCalled
    /\ html_content = BlankDoc
    /\ scraped = NotCalled

\* process_web_links(web_link) with a list: the comprehension starts
CallList(refs) ==
    /\ pc \in {"idle", "returned", "raised"}
    /\ now + Len(refs) <= MaxClock
    /\ pc' = "list"
    /\ arg' = [kind |-> "list", refs |-> refs]
    /\ idx' = 1
    /\ out' = <<>>
    /\ result' = NoResult
    /\ raised' = "none"
    /\ wire' = <<>>
    /\ cur' = NoCall
    /\ UNCHANGED <<links, now, fw_vars, scraper_vars>>

\* one iteration of [self.link_meta(l) for l in web_link]
ListStep(fetch) ==
    /\ pc = "list"
    /\ idx <= Len(arg.refs)
    /\ LET o == arg.refs[idx]
           m == link_meta(links[o], fetch, now + 1)
       IN  /\ links' = [links EXCEPT ![o] = m.web_link]
           /\ now' = now + 1
           /\ wire' = wire \o m.sent
           /\ cur' = [obj |-> o, before |-> links[o], fetch |-> fetch]
           /\ IF m.exc # "none"
              THEN /\ pc' = "raised"
                   /\ raised' = m.exc
                   /\ UNCHANGED <<idx, out>>
              ELSE /\ out' = Append(out, o)
                   /\ idx' = idx + 1
                   /\ UNCHANGED <<pc, raised>>
    /\ UNCHANGED <<arg, result, fw_vars, scraper_vars>>

\* the comprehension is exhausted: return the list
ListReturn ==
    /\ pc = "list"
    /\ idx > Len(arg.refs)
    /\ pc' = "returned"
    /\ result' = [kind |-> "list", refs |-> out]
    /\ UNCHANGED <<links, now, arg, idx, out, raised, wire, cur, fw_vars,
                   scraper_vars>>

\* process_web_links(web_link) with a dict: return self.link_meta(web_link)
ProcessDict(o, fetch) ==
    /\ pc \in {"idle", "returned", "raised"}
    /\ now + 1 <= MaxClock
    /\ LET m == link_meta(links[o], fetch, now + 1)
       IN  /\ links' = [links EXCEPT ![o] = m.web_link]
           /\ now' = now + 1
           /\ wire' = m.sent
           /\ cur' = [obj |-> o, before |-> links[o], fetch |-> fetch]
           /\ raised' = m.exc
           /\ pc' = IF m.exc # "none" THEN "raised" ELSE "returned"
           /\ result' = IF m.exc # "none" THEN NoResult
                        ELSE [kind |-> "dict", refs |-> <<o>>]
    /\ arg' = [kind |-> "dict", refs |-> <<o>>]
    /\ idx' = 1
    /\ out' = <<>>
    /\ UNCHANGED <<fw_vars, scraper_vars>>

Next ==
    \/ \E refs \in Lists : CallList(refs)
    \/ \E fetch \in Fetches : ListStep(fetch)
    \/ ListReturn
    \/ \E o \in Objs, fetch \in Fetches : ProcessDict(o, fetch)

Spec == Init /\ [][Next]_vars

\* ------------------------------------------- fetch_web_links on its own
InitFetch ==
    /\ Init

FetchWebLinks(item_id, link_type, link_title, item) ==
    /\ fw_call' = [item_id |-> item_id, link_type |-> link_type,
                   link_title |-> link_title, item |-> item]
    /\ fw_result' = fetch_web_links(item, item_id, link_type, link_title)
    /\ UNCHANGED <<main_vars, scraper_vars>>

NextFetch ==
    \E item_id \in ItemIds,
       link_type \in LinkTypes \cup {NoFilter},
       link_title \in LinkTitles \cup {NoFilter} :
        \E item \in Items(item_id) :
            FetchWebLinks(item_id, link_type, link_title, item)

SpecFetch == InitFetch /\ [][NextFetch]_vars

\* ---------------------------------------------- meta_scraper on its own
InitScraper ==
    /\ links = [o \in Objs |-> NewLink(o)]
    /\ now = 0
    /\ pc = "idle"
    /\ arg = NoResult
    /\ idx = 1
    /\ out = <<>>
    /\ result = NoResult
    /\ raised = "none"
    /\ wire = <<>>
    /\ cur = NoCall
    /\ fw_call = NotCalled
    /\ fw_result = NotCalled
    /\ html_content \in Docs
    /\ scraped = NotCalled

MetaScraper ==
    /\ scraped = NotCalled
    /\ scraped' = [returned |-> meta_scraper(html_content)]
    /\ UNCHANGED <<html_content, main_vars, fw_vars>>

NextScraper == MetaScraper

SpecScraper == InitScraper /\ [][NextScraper]_vars


\* ================================================================ claims
\* the annotation of the link of the last link_meta call
Called == cur.obj # 0
Ann == links[cur.obj]["annotation"]
AnnKeys == DOMAIN Ann

\* the GET raised, or its status is raised as an error by raise_for_status
FetchFailed(f) == f.kind = "ConnectionError" \/ raise_for_status(f)

Got200 == Called /\ cur.fetch.kind = "Response" /\ cur.fetch.status_code = 200

ListURIs(n) == [i \in 1..n |-> URI(arg.refs[i])]

\* C1: a list call over N links never fails because a link's fetch failed
\* (connection failure or error status), and when it returns it returns N
\* annotated links.
C1_BatchNeverFails ==
    arg.kind = "list" =>
        /\ ~(pc = "raised" /\ Called /\ FetchFailed(cur.fetch))
        /\ pc = "returned" =>
              /\ Len(result.refs) = Len(arg.refs)
              /\ \A i \in 1..Len(result.refs) :
                    "annotation" \in DOMAIN links[result.refs[i]]

\* C2: for a link whose fetch failed, get_weblink_response returns (no
\* exception leaves it) and the annotation has content_type ERROR or
\* HTTP_ERROR, a non-empty error_message and no status_code.
C2_UnreachableAnnotated ==
    (Called /\ FetchFailed(cur.fetch)) =>
        /\ raised = "none"
        /\ Ann["content_type"] \in {"ERROR", "HTTP_ERROR"}
        /\ "error_message" \in AnnKeys
        /\ Ann["error_message"] # <<>>
        /\ "status_code" \notin AnnKeys

\* C3: for a link whose fetch returned 200, link_meta returns the link
\* whatever the extractors do, and a failing structured-data extraction on
\* html leaves structured_data = None.
C3_ExtractionSwallowed ==
    Got200 =>
        /\ raised = "none"
        /\ (Ann["content_type"] = "html" /\ ~cur.fetch.body.extruct) =>
               ("structured_data" \in AnnKeys /\ Ann["structured_data"] = None)

\* C4: for a 200 response content_type follows the ordered trial parses
\* alone: xml iff an element is found and strict XML parsing succeeds, html
\* iff an element is found and it fails, json iff no element is found and
\* the body parses as JSON, UNKNOWN otherwise.
C4_ClassifiedByTrialParse ==
    Got200 =>
        LET b == cur.fetch.body
        IN  Ann["content_type"] =
                IF b.elem /\ b.xml THEN "xml"
                ELSE IF b.elem THEN "html"
                ELSE IF b.json THEN "json"
                ELSE "UNKNOWN"

\* a body with an HTML element that also parses as JSON, served as
\* application/json, is classified html
C4_Witness ==
    /\ Got200
    /\ cur.fetch.body.elem /\ cur.fetch.body.json
    /\ cur.fetch.ctype = "application/json"
    /\ Ann["content_type"] = "html"

\* C5 as stated: whenever the GET yields a response, whatever its status,
\* the annotation has status_code, headers and encoding.
C5_RecordedForEveryStatus ==
    (Called /\ cur.fetch.kind = "Response") =>
        {"status_code", "headers", "encoding"} \subseteq AnnKeys

\* C5 amended: whenever the GET yields a response whose status is below
\* 400 (raise_for_status does not raise), the annotation has the response's
\* status_code, its headers and encoding, for every classification outcome.
C5_RecordedUnlessErrorStatus ==
    (Called /\ cur.fetch.kind = "Response" /\ ~raise_for_status(cur.fetch)) =>
        /\ {"status_code", "headers", "encoding"} \subseteq AnnKeys
        /\ Ann["status_code"] = cur.fetch.status_code
        /\ Ann["headers"] = [ContentType |-> cur.fetch.ctype]

C5_Witness ==
    /\ Called
    /\ cur.fetch.kind = "Response"
    /\ cur.fetch.status_code = 304
    /\ "status_code" \in AnnKeys
    /\ Ann["status_code"] = 304
    /\ Ann["content_type"] = "UNKNOWN"

\* C6: in every annotation the optional fields agree with content_type:
\* error_message only with ERROR or HTTP_ERROR, meta_content and
\* structured_data only with html, xml_meta_summary only with xml,
\* json_content only with json; content_type is one of the six kinds.
C6_FieldsAgreeWithContentType ==
    \A o \in Objs :
        "annotation" \in DOMAIN links[o] =>
            LET a == links[o]["annotation"]
                ct == a["content_type"]
            IN  /\ ct \in {"UNKNOWN", "ERROR", "HTTP_ERROR", "html", "xml",
                           "json"}
                /\ "error_message" \in DOMAIN a => ct \in {"ERROR", "HTTP_ERROR"}
                /\ "meta_content" \in DOMAIN a => ct = "html"
                /\ "structured_data" \in DOMAIN a => ct = "html"
                /\ "xml_meta_summary" \in DOMAIN a => ct = "xml"
                /\ "json_content" \in DOMAIN a => ct = "json"

\* a link annotated as json is annotated again as html: a body that has
\* an element and also parses as JSON
C6_Witness ==
    /\ Called
    /\ pc = "returned"
    /\ "annotation" \in DOMAIN cur.before
    /\ "json_content" \in DOMAIN cur.before["annotation"]
    /\ cur.fetch.body.json
    /\ Ann["content_type"] = "html"
    /\ "meta_content" \in AnnKeys

StripAnnotation(d) == [k \in DOMAIN d \ {"annotation"} |-> d[k]]

\* C7: annotating a link again overwrites its annotation entirely: the
\* link after the call is what the same fetch leaves on a link that was
\* never annotated, whatever annotation it carried before.
C7_OverwritesEntirely ==
    Called =>
        links[cur.obj] =
            link_meta(StripAnnotation(cur.before), cur.fetch, now).web_link

\* second run on a link whose first annotation had status_code and
\* json_content: neither survives a failed second fetch
C7_Witness ==
    /\ Called
    /\ "annotation" \in DOMAIN cur.before
    /\ {"status_code", "json_content"} \subseteq DOMAIN cur.before["annotation"]
    /\ cur.fetch.kind = "ConnectionError"
    /\ AnnKeys = {"link_check_date", "content_type"}

\* C8: fetch_web_links returns None when the item has no webLinks or no
\* link passes the filters, else {id, webLinks: L}, L the links in original
\* order whose type equals link_type (when given) and whose title equals
\* link_title (when given).
C8_FiltersAndCombined ==
    fw_call # NotCalled =>
        LET item == fw_call.item
            Keep(l) ==
                /\ fw_call.link_type # NoFilter => l["type"] = fw_call.link_type
                /\ fw_call.link_title # NoFilter => l["title"] = fw_call.link_title
            L == IF "webLinks" \in DOMAIN item
                 THEN SelectSeq(item["webLinks"], Keep)
                 ELSE <<>>
        IN  IF L = <<>>
            THEN fw_result = NoneReturned
            ELSE fw_result = [id |-> fw_call.item_id, webLinks |-> L]

\* both filters given, two links of the wanted title, one of the wanted type
C8_Witness ==
    /\ fw_call # NotCalled
    /\ fw_call.link_type = "download"
    /\ fw_call.link_title = "A"
    /\ "webLinks" \in DOMAIN fw_call.item
    /\ fw_call.item["webLinks"] =
           << [uri |-> "u", type |-> "info", title |-> "A"],
              [uri |-> "u", type |-> "download", title |-> "A"] >>
    /\ fw_result = [id |-> fw_call.item_id,
                    webLinks |-> << [uri |-> "u", type |-> "download",
                                     title |-> "A"] >>]

\* a <meta> tag as the claim counts it: name present and non-empty,
\* content present and non-empty after trimming
Qualifies(meta) ==
    /\ "name" \in DOMAIN meta
    /\ meta["name"] # <<>>
    /\ "content" \in DOMAIN meta
    /\ strip(meta["content"]) # <<>>

\* C9: meta_scraper returns the title under key title when a <title> is
\* present, plus one entry name -> trimmed content for exactly the
\* qualifying <meta> tags, the last qualifying occurrence of a name winning.
C9_OnlyNamedMetas ==
    scraped # NotCalled =>
        LET ret == scraped.returned
            metas == html_content.metas
            Q == {i \in 1..Len(metas) : Qualifies(metas[i])}
            LastOf(n) == CHOOSE i \in Q :
                            /\ metas[i]["name"] = n
                            /\ \A j \in Q : metas[j]["name"] = n => j <= i
            QNames == {metas[i]["name"] : i \in Q}
        IN  /\ DOMAIN ret = QNames \cup (IF html_content.title.present
                                         THEN {TitleKey} ELSE {})
            /\ \A n \in QNames : ret[n] = strip(metas[LastOf(n)]["content"])
            /\ (html_content.title.present /\ TitleKey \notin QNames) =>
                   ret[TitleKey] = html_content.title.string

\* C10: a list call processes the links one at a time in input order with
\* one GET per link and no retry: the GETs on the wire are those of the
\* first links of the list, in order, at most one ahead of the completed
\* annotations, and the returned list holds the input links, annotated, in
\* input order.
C10_OneGetPerLinkInOrder ==
    arg.kind = "list" =>
        /\ out = SubSeq(arg.refs, 1, Len(out))
        /\ pc \in {"list", "returned"} => wire = ListURIs(Len(out))
        /\ pc = "raised" => wire = ListURIs(Len(out) + 1)
        /\ pc = "returned" =>
              /\ result.refs = arg.refs
              /\ wire = ListURIs(Len(arg.refs))
              /\ \A i \in 1..Len(arg.refs) :
                    "annotation" \in DOMAIN links[result.refs[i]]

\* a list of two different links returned, both fetched once
C10_Witness ==
    /\ arg.kind = "list"
    /\ pc = "returned"
    /\ Len(arg.refs) = 2
    /\ arg.refs[1] # arg.refs[2]
    /\ result.refs = arg.refs
    /\ wire = << URI(arg.refs[1]), URI(arg.refs[2]) >>

====
